---------------------------- MODULE Spec2Model ----------------------------
(***************************************************************************)
(* get-stale-packages-action: main.go walks the packages of one repository *)
(* and the versions of each package through a cursor-paginated GraphQL     *)
(* query, collects the IDs of the versions that are unprotected and older  *)
(* than packageTTL, and publishes them as STALE_VERSIONS.                  *)
(*                                                                         *)
(* Strings are sequences of one-character strings, so that strings.Split,  *)
(* strings.Join and the semver regular expression are computed character   *)
(* by character.  Time is counted in seconds.  A cursor is <<>> (the nil   *)
(* pointer) or <<n>>, the string the server handed out for offset n.       *)
(***************************************************************************)
EXTENDS Integers, Sequences, FiniteSets, TLC

(* ------------------------------ bounds --------------------------------- *)
MaxPkgs == 2
MaxTotal == 3
MaxPageSize == 2
MaxTicks == 1
MaxAnomalies == 1

(* ------------------------- program constants --------------------------- *)
PackageTTL == 604800

(* --------------------------- characters -------------------------------- *)
DigitChars == <<"0", "1", "2", "3", "4", "5", "6", "7", "8", "9">>

Digits == {DigitChars[i] : i \in 1..10}

NonZeroDigits == Digits \ {"0"}

Letters ==
    {"a", "b", "c", "d", "e", "f", "g", "h", "i", "j", "k", "l", "m",
     "n", "o", "p", "q", "r", "s", "t", "u", "v", "w", "x", "y", "z",
     "A", "B", "C", "D", "E", "F", "G", "H", "I", "J", "K", "L", "M",
     "N", "O", "P", "Q", "R", "S", "T", "U", "V", "W", "X", "Y", "Z"}

Slice(s, lo, hi) == IF hi < lo THEN <<>> ELSE [x \in 1..(hi - lo + 1) |-> s[lo + x - 1]]

AllIn(s, cls) == \A x \in 1..Len(s) : s[x] \in cls

(* strings.Split(s, sep) for a one-character separator: the segments       *)
(* between the separators, empty segments included; n segments for n - 1   *)
(* separators.                                                             *)
RECURSIVE SplitFrom(_, _, _, _)
SplitFrom(s, sep, x, cur) ==
    IF x > Len(s) THEN <<cur>>
    ELSE IF s[x] = sep THEN <<cur>> \o SplitFrom(s, sep, x + 1, <<>>)
    ELSE SplitFrom(s, sep, x + 1, Append(cur, s[x]))

Split(s, sep) == SplitFrom(s, sep, 1, <<>>)

\* Join with the space of the separator lost
RECURSIVE JoinNoSpace(_, _)
JoinNoSpace(elems, sep) ==
    IF Len(elems) = 0 THEN <<>>
    ELSE IF Len(elems) = 1 THEN elems[1]
    ELSE elems[1] \o <<sep[1]>> \o JoinNoSpace(Tail(elems), sep)

(* strings.Join(elems, sep) *)
RECURSIVE Join(_, _)
Join(elems, sep) ==
    IF Len(elems) = 0 THEN <<>>
    ELSE IF Len(elems) = 1 THEN elems[1]
    ELSE elems[1] \o sep \o Join(Tail(elems), sep)

CommaSpace == <<",", " ">>

(* ------------------- semverRegExp, matched as written ------------------ *)
\* numeric identifier: 0, or a non-zero digit followed by digits
NumericIdent(s) ==
    \/ s = <<"0">>
    \/ /\ Len(s) >= 1
       /\ s[1] \in NonZeroDigits
       /\ AllIn(s, Digits)

\* alphanumeric identifier: digits, one letter or hyphen, then [0-9a-zA-Z-] characters
AlphanumIdent(s) ==
    \E x \in 1..Len(s) :
        /\ s[x] \in Letters \cup {"-"}
        /\ AllIn(Slice(s, 1, x - 1), Digits)
        /\ AllIn(Slice(s, x + 1, Len(s)), Digits \cup Letters \cup {"-"})

\* prerelease group: identifiers of either kind, separated by dots
PreRelease(s) ==
    LET ids == Split(s, ".")
    IN  \A x \in 1..Len(ids) : NumericIdent(ids[x]) \/ AlphanumIdent(ids[x])

\* buildmetadata group: non-empty [0-9a-zA-Z-] runs, separated by dots
BuildMetadata(s) ==
    LET ids == Split(s, ".")
    IN  \A x \in 1..Len(ids) :
            Len(ids[x]) >= 1 /\ AllIn(ids[x], Digits \cup Letters \cup {"-"})

\* major, minor and patch groups: three numeric identifiers separated by dots
VersionCore(s) ==
    LET ids == Split(s, ".")
    IN  Len(ids) = 3 /\ \A x \in 1..3 : NumericIdent(ids[x])

\* reg.MatchString: the whole string is the core, then optionally a hyphen
\* and a prerelease, then optionally a plus sign and build metadata
RegMatchString(s) ==
    \E c \in 1..Len(s) : \E p \in c..Len(s) :
        /\ VersionCore(Slice(s, 1, c))
        /\ \/ p = c
           \/ /\ p > c
              /\ s[c + 1] = "-"
              /\ PreRelease(Slice(s, c + 2, p))
        /\ \/ p = Len(s)
           \/ /\ p < Len(s)
              /\ s[p + 1] = "+"
              /\ BuildMetadata(Slice(s, p + 2, Len(s)))

TagDockerBaseLayer ==
    <<"d", "o", "c", "k", "e", "r", "-", "b", "a", "s", "e", "-",
      "l", "a", "y", "e", "r">>

TagLatest == <<"l", "a", "t", "e", "s", "t">>

\* matchVersion without the test for latest
matchVersionNoLatest(version) ==
    IF RegMatchString(version) THEN FALSE
    ELSE IF version = TagDockerBaseLayer THEN FALSE
    ELSE TRUE

(* matchVersion: TRUE when the version is not semver, not docker-base-layer *)
(* and not latest.                                                          *)
matchVersion(version) ==
    IF RegMatchString(version) THEN FALSE
    ELSE IF version = TagDockerBaseLayer THEN FALSE
    ELSE IF version = TagLatest THEN FALSE
    ELSE TRUE

(* ------------------------- inputs of a run ----------------------------- *)
TagSemver == <<"1", ".", "2", ".", "3">>

TagSemverPre == <<"1", ".", "2", ".", "3", "-", "b", "e", "t", "a", ".", "1">>

TagSemverBuild == <<"1", ".", "2", ".", "3", "+", "b", "u", "i", "l", "d", ".", "5">>

TagPr == <<"p", "r", "-", "4", "2">>

TagEmpty == <<>>

TagVPrefixed == <<"v", "1", ".", "0", ".", "0">>

TagLeadingZero == <<"0", "1", ".", "2", ".", "3">>

TagTwoParts == <<"1", ".", "2">>

TagLatestUpper == <<"L", "a", "t", "e", "s", "t">>

Tags ==
    {TagSemver, TagSemverPre, TagSemverBuild, TagLatest, TagDockerBaseLayer,
     TagPr, TagEmpty, TagVPrefixed, TagLeadingZero, TagTwoParts, TagLatestUpper}

\* the clock when the run starts; the file timestamps lie around StartTime - PackageTTL
StartTime == PackageTTL + 1

Times == {StartTime - PackageTTL - 1, StartTime - PackageTTL, StartTime - PackageTTL + 1}

\* files(last: 1): no file node, or the most recent one
FileLists == {<<>>} \cup {<<[UpdatedAt |-> t]>> : t \in Times}

OldFile == <<[UpdatedAt |-> StartTime - PackageTTL - 1]>>

\* every tag with an old file and with no file, and every file list with TagPr
Kinds ==
    [Version : Tags, Files : {OldFile, <<>>}] \cup [Version : {TagPr}, Files : FileLists]

BasicKinds == {[Version |-> TagPr, Files |-> OldFile], [Version |-> TagSemver, Files |-> OldFile]}

DefaultKind == [Version |-> TagPr, Files |-> OldFile]

Ch(n) == DigitChars[n + 1]

PkgID(i) == <<"p", Ch(i)>>

VerID(i, j) == <<"v", Ch(i), Ch(j)>>

RECURSIVE Sum(_)
Sum(sh) == IF Len(sh) = 0 THEN 0 ELSE Head(sh) + Sum(Tail(sh))

\* a shape gives the number of versions of each package: MaxPkgs packages at
\* most, holding MaxTotal versions at most between them
Shapes == {sh \in UNION {[1..k -> 0..MaxTotal] : k \in 0..MaxPkgs} : Sum(sh) <= MaxTotal}

Slots(sh) ==
    {sl \in (1..MaxPkgs) \X (1..MaxTotal) : sl[1] <= Len(sh) /\ sl[2] <= sh[sl[1]]}

MkRepo(sh, asg) ==
    [i \in 1..Len(sh) |->
        [ID |-> PkgID(i),
         Versions |-> [j \in 1..sh[i] |->
             [ID |-> VerID(i, j),
              Version |-> asg[<<i, j>>].Version,
              Files |-> asg[<<i, j>>].Files]]]]

\* every repository of basic versions
BasicRepos == UNION {{MkRepo(sh, asg) : asg \in [Slots(sh) -> BasicKinds]} : sh \in Shapes}

\* every repository of basic versions, and every repository in which one
\* version is of any kind and the others are of the default kind
Repos ==
    UNION {
        {MkRepo(sh, asg) : asg \in [Slots(sh) -> BasicKinds]} \cup
        {MkRepo(sh, [sl \in Slots(sh) |-> IF sl = r[1] THEN r[2] ELSE DefaultKind]) :
            r \in Slots(sh) \X Kinds}
        : sh \in Shapes}

GithubRepos ==
    {<<>>, <<"o", "/", "n">>, <<"o">>, <<"/", "n">>, <<"o", "/">>,
     <<"o", "/", "n", "/", "x">>}

\* the repositories of one package at most, holding one default version at most
SmallRepos ==
    {<<>>, MkRepo(<<0>>, <<>>), MkRepo(<<1>>, [sl \in {<<1, 1>>} |-> DefaultKind])}

Token == <<"t", "o", "k">>

Tokens == {<<>>, Token}

\* the repository the server hosts
ServerOwner == <<"o">>

ServerName == <<"n">>

(* ------------------------------ state ---------------------------------- *)
VARIABLES
    token,            \* os.Getenv("ROBOT_TOKEN")
    githubRepo,       \* os.Getenv("GITHUB_REPOSITORY")
    repo,             \* the packages the server holds for ServerOwner/ServerName
    now,              \* what time.Now() returns
    pc,               \* "start", "loop", "publish", "done", "failed", "panicked"
    fatal,            \* what githubactions.Fatalf reported: "", "token", "repo", "query"
    repositoryOwner,  \* variables["repositoryOwner"]
    repositoryName,   \* variables["repositoryName"]
    packagesCursor,   \* variables["packagesCursor"]
    versionsCursor,   \* variables["versionsCursor"]
    query,            \* query.Repository.Packages, as the last response filled it
    versions,         \* var versions []string
    envFile,          \* what githubactions.SetEnv wrote, in order
    queries,          \* history: the cursors each client.Query call carried
    visited,          \* history: the IDs of the version nodes the range loop met
    anomalies         \* history: the anomalous responses the server gave

vars ==
    <<token, githubRepo, repo, now, pc, fatal, repositoryOwner, repositoryName,
      packagesCursor, versionsCursor, query, versions, envFile, queries, visited,
      anomalies>>

NilCursor == <<>>

ZeroPageInfo == [EndCursor |-> <<>>, HasNextPage |-> FALSE]

\* the zero value of the query struct
ZeroQuery == [Nodes |-> <<>>, PageInfo |-> ZeroPageInfo]

Init ==
    /\ token \in Tokens
    /\ githubRepo \in GithubRepos
    /\ repo \in IF token = Token /\ githubRepo = ServerOwner \o <<"/">> \o ServerName
               THEN Repos
               ELSE SmallRepos
    /\ now = StartTime
    /\ pc = "start"
    /\ fatal = ""
    /\ repositoryOwner = <<>>
    /\ repositoryName = <<>>
    /\ packagesCursor = NilCursor
    /\ versionsCursor = NilCursor
    /\ query = ZeroQuery
    /\ versions = <<>>
    /\ envFile = <<>>
    /\ queries = <<>>
    /\ visited = <<>>
    /\ anomalies = 0

(* ------------------------------ startup -------------------------------- *)
\* ROBOT_TOKEN is empty: Fatalf
StartTokenEmpty ==
    /\ pc = "start"
    /\ token = <<>>
    /\ pc' = "failed"
    /\ fatal' = "token"
    /\ UNCHANGED <<token, githubRepo, repo, now, repositoryOwner, repositoryName,
                   packagesCursor, versionsCursor, query, versions, envFile,
                   queries, visited, anomalies>>

\* GITHUB_REPOSITORY is empty: Fatalf
StartRepoEmpty ==
    /\ pc = "start"
    /\ token # <<>>
    /\ githubRepo = <<>>
    /\ pc' = "failed"
    /\ fatal' = "repo"
    /\ UNCHANGED <<token, githubRepo, repo, now, repositoryOwner, repositoryName,
                   packagesCursor, versionsCursor, query, versions, envFile,
                   queries, visited, anomalies>>

\* githubRepoSlice[1] on a slice of one element: index out of range, the
\* runtime panics
StartPanic ==
    /\ pc = "start"
    /\ token # <<>>
    /\ githubRepo # <<>>
    /\ Len(Split(githubRepo, "/")) < 2
    /\ pc' = "panicked"
    /\ UNCHANGED <<token, githubRepo, repo, now, fatal, repositoryOwner,
                   repositoryName, packagesCursor, versionsCursor, query, versions,
                   envFile, queries, visited, anomalies>>

\* StartOk without the tests for empty variables
StartOkUnchecked ==
    /\ pc = "start"
    /\ LET githubRepoSlice == Split(githubRepo, "/")
       IN  /\ Len(githubRepoSlice) >= 2
           /\ repositoryOwner' = githubRepoSlice[1]
           /\ repositoryName' = githubRepoSlice[2]
    /\ pc' = "loop"
    /\ UNCHANGED <<token, githubRepo, repo, now, fatal, packagesCursor,
                   versionsCursor, query, versions, envFile, queries, visited,
                   anomalies>>

\* the first two segments become owner and name; the loops are entered
StartOk ==
    /\ pc = "start"
    /\ token # <<>>
    /\ githubRepo # <<>>
    /\ LET githubRepoSlice == Split(githubRepo, "/")
       IN  /\ Len(githubRepoSlice) >= 2
           /\ repositoryOwner' = githubRepoSlice[1]
           /\ repositoryName' = githubRepoSlice[2]
    /\ pc' = "loop"
    /\ UNCHANGED <<token, githubRepo, repo, now, fatal, packagesCursor,
                   versionsCursor, query, versions, envFile, queries, visited,
                   anomalies>>

(* ------------------------------ the server ----------------------------- *)
\* a cursor names an offset in its collection; nil starts at the beginning
Offset(cursor) == IF cursor = NilCursor THEN 0 ELSE cursor[1]

Min(a, b) == IF a < b THEN a ELSE b

RepositoryExists == repositoryOwner = ServerOwner /\ repositoryName = ServerName

\* packages(last: 1, after: pcur) with versions(last: 100, after: vcur), the
\* server returning k versions at most
ServerResponse(pcur, vcur, k) ==
    LET po == Offset(pcur)
        vo == Offset(vcur)
    IN  IF po >= Len(repo) THEN ZeroQuery
        ELSE LET p == repo[po + 1]
                 hi == Min(vo + k, Len(p.Versions))
                 nodes == Slice(p.Versions, vo + 1, hi)
             IN  [Nodes |-> <<[ID |-> p.ID,
                               Versions |-> [Nodes |-> nodes,
                                             PageInfo |->
                                                 [EndCursor |-> IF Len(nodes) = 0 THEN <<>> ELSE <<hi>>,
                                                  HasNextPage |-> hi < Len(p.Versions)]]]>>,
                  PageInfo |-> [EndCursor |-> <<po + 1>>,
                                HasNextPage |-> po + 1 < Len(repo)]]

\* past the last package the page is empty; the server may still say that
\* more pages follow, the end cursor staying where it was
AnomalousResponse(pcur) ==
    [Nodes |-> <<>>, PageInfo |-> [EndCursor |-> <<Offset(pcur)>>, HasNextPage |-> TRUE]]

(* ------------------------------ the loops ------------------------------ *)
\* Stale with Before read as not-after
StaleInclusive(node, t) ==
    LET updatedAt == node.Files[1].UpdatedAt
    IN  matchVersion(node.Version) /\ updatedAt <= t - PackageTTL

\* the decision of lines 108-116 for a node that has a file
Stale(node, t) ==
    LET updatedAt == node.Files[1].UpdatedAt
    IN  matchVersion(node.Version) /\ updatedAt < t - PackageTTL

\* StaleIDs without the test for an empty file list: a node without files
\* is judged by its tag alone
RECURSIVE StaleIDsNoFileCheck(_, _)
StaleIDsNoFileCheck(nodes, t) ==
    IF Len(nodes) = 0 THEN <<>>
    ELSE LET node == Head(nodes)
         IN  IF Len(node.Files) = 0
             THEN IF matchVersion(node.Version)
                  THEN <<node.ID>> \o StaleIDsNoFileCheck(Tail(nodes), t)
                  ELSE StaleIDsNoFileCheck(Tail(nodes), t)
             ELSE IF Stale(node, t) THEN <<node.ID>> \o StaleIDsNoFileCheck(Tail(nodes), t)
             ELSE StaleIDsNoFileCheck(Tail(nodes), t)

\* the IDs the range loop appends to versions
RECURSIVE StaleIDs(_, _)
StaleIDs(nodes, t) ==
    IF Len(nodes) = 0 THEN <<>>
    ELSE LET node == Head(nodes)
         IN  IF Len(node.Files) = 0 THEN StaleIDs(Tail(nodes), t)
             ELSE IF Stale(node, t) THEN <<node.ID>> \o StaleIDs(Tail(nodes), t)
             ELSE StaleIDs(Tail(nodes), t)

\* the IDs of the nodes the range loop meets
Visits(nodes) == [x \in 1..Len(nodes) |-> nodes[x].ID]

\* Step with the break on an empty page leaving both loops
StepBreakOuter(resp) ==
    /\ query' = resp
    /\ IF Len(resp.Nodes) = 0
       THEN /\ versions' = versions
            /\ visited' = visited
       ELSE LET pkg == resp.Nodes[1]
            IN  /\ versions' = versions \o StaleIDs(pkg.Versions.Nodes, now)
                /\ visited' = visited \o Visits(pkg.Versions.Nodes)
    /\ IF Len(resp.Nodes) # 0 /\ resp.Nodes[1].Versions.PageInfo.HasNextPage
       THEN /\ versionsCursor' = resp.Nodes[1].Versions.PageInfo.EndCursor
            /\ packagesCursor' = packagesCursor
            /\ pc' = "loop"
       ELSE /\ versionsCursor' = versionsCursor
            /\ IF Len(resp.Nodes) = 0 \/ ~resp.PageInfo.HasNextPage
               THEN /\ packagesCursor' = packagesCursor
                    /\ pc' = "publish"
               ELSE /\ packagesCursor' = resp.PageInfo.EndCursor
                    /\ pc' = "loop"

\* Step with the versions loop left after its first iteration
StepLeavesEarly(resp) ==
    /\ query' = resp
    /\ IF Len(resp.Nodes) = 0
       THEN /\ versions' = versions
            /\ visited' = visited
       ELSE LET pkg == resp.Nodes[1]
            IN  /\ versions' = versions \o StaleIDs(pkg.Versions.Nodes, now)
                /\ visited' = visited \o Visits(pkg.Versions.Nodes)
    /\ versionsCursor' = versionsCursor
    /\ IF ~resp.PageInfo.HasNextPage
       THEN /\ packagesCursor' = packagesCursor
            /\ pc' = "publish"
       ELSE /\ packagesCursor' = resp.PageInfo.EndCursor
            /\ pc' = "loop"

\* Step with the packages cursor set to the end cursor of the versions page
StepSwapsCursors(resp) ==
    /\ query' = resp
    /\ IF Len(resp.Nodes) = 0
       THEN /\ versions' = versions
            /\ visited' = visited
       ELSE LET pkg == resp.Nodes[1]
            IN  /\ versions' = versions \o StaleIDs(pkg.Versions.Nodes, now)
                /\ visited' = visited \o Visits(pkg.Versions.Nodes)
    /\ IF Len(resp.Nodes) # 0 /\ resp.Nodes[1].Versions.PageInfo.HasNextPage
       THEN /\ versionsCursor' = resp.Nodes[1].Versions.PageInfo.EndCursor
            /\ packagesCursor' = packagesCursor
            /\ pc' = "loop"
       ELSE /\ versionsCursor' = versionsCursor
            /\ IF ~resp.PageInfo.HasNextPage
               THEN /\ packagesCursor' = packagesCursor
                    /\ pc' = "publish"
               ELSE /\ packagesCursor' = IF Len(resp.Nodes) # 0
                                         THEN resp.Nodes[1].Versions.PageInfo.EndCursor
                                         ELSE resp.PageInfo.EndCursor
                    /\ pc' = "loop"

\* Step with the stale IDs of a page put in front of the ones collected
StepPrepends(resp) ==
    /\ query' = resp
    /\ IF Len(resp.Nodes) = 0
       THEN /\ versions' = versions
            /\ visited' = visited
       ELSE LET pkg == resp.Nodes[1]
            IN  /\ versions' = StaleIDs(pkg.Versions.Nodes, now) \o versions
                /\ visited' = visited \o Visits(pkg.Versions.Nodes)
    /\ IF Len(resp.Nodes) # 0 /\ resp.Nodes[1].Versions.PageInfo.HasNextPage
       THEN /\ versionsCursor' = resp.Nodes[1].Versions.PageInfo.EndCursor
            /\ packagesCursor' = packagesCursor
            /\ pc' = "loop"
       ELSE /\ versionsCursor' = versionsCursor
            /\ IF ~resp.PageInfo.HasNextPage
               THEN /\ packagesCursor' = packagesCursor
                    /\ pc' = "publish"
               ELSE /\ packagesCursor' = resp.PageInfo.EndCursor
                    /\ pc' = "loop"

\* Step with the packages cursor moved along with the versions cursor
StepAdvancesBoth(resp) ==
    /\ query' = resp
    /\ IF Len(resp.Nodes) = 0
       THEN /\ versions' = versions
            /\ visited' = visited
       ELSE LET pkg == resp.Nodes[1]
            IN  /\ versions' = versions \o StaleIDs(pkg.Versions.Nodes, now)
                /\ visited' = visited \o Visits(pkg.Versions.Nodes)
    /\ IF Len(resp.Nodes) # 0 /\ resp.Nodes[1].Versions.PageInfo.HasNextPage
       THEN /\ versionsCursor' = resp.Nodes[1].Versions.PageInfo.EndCursor
            /\ packagesCursor' = resp.PageInfo.EndCursor
            /\ pc' = "loop"
       ELSE /\ versionsCursor' = versionsCursor
            /\ IF ~resp.PageInfo.HasNextPage
               THEN /\ packagesCursor' = packagesCursor
                    /\ pc' = "publish"
               ELSE /\ packagesCursor' = resp.PageInfo.EndCursor
                    /\ pc' = "loop"

\* Step with a return in place of the outer loop's break: the process ends
\* without publishing
StepReturns(resp) ==
    /\ query' = resp
    /\ IF Len(resp.Nodes) = 0
       THEN /\ versions' = versions
            /\ visited' = visited
       ELSE LET pkg == resp.Nodes[1]
            IN  /\ versions' = versions \o StaleIDs(pkg.Versions.Nodes, now)
                /\ visited' = visited \o Visits(pkg.Versions.Nodes)
    /\ IF Len(resp.Nodes) # 0 /\ resp.Nodes[1].Versions.PageInfo.HasNextPage
       THEN /\ versionsCursor' = resp.Nodes[1].Versions.PageInfo.EndCursor
            /\ packagesCursor' = packagesCursor
            /\ pc' = "loop"
       ELSE /\ versionsCursor' = versionsCursor
            /\ IF ~resp.PageInfo.HasNextPage
               THEN /\ packagesCursor' = packagesCursor
                    /\ pc' = "returned"
               ELSE /\ packagesCursor' = resp.PageInfo.EndCursor
                    /\ pc' = "loop"

\* one iteration of the inner loop after client.Query returned resp, and the
\* outer loop's test when the inner loop is left
Step(resp) ==
    /\ query' = resp
    /\ IF Len(resp.Nodes) = 0
       THEN /\ versions' = versions
            /\ visited' = visited
       ELSE LET pkg == resp.Nodes[1]
            IN  /\ versions' = versions \o StaleIDs(pkg.Versions.Nodes, now)
                /\ visited' = visited \o Visits(pkg.Versions.Nodes)
    /\ IF Len(resp.Nodes) # 0 /\ resp.Nodes[1].Versions.PageInfo.HasNextPage
       THEN /\ versionsCursor' = resp.Nodes[1].Versions.PageInfo.EndCursor
            /\ packagesCursor' = packagesCursor
            /\ pc' = "loop"
       ELSE /\ versionsCursor' = versionsCursor
            /\ IF ~resp.PageInfo.HasNextPage
               THEN /\ packagesCursor' = packagesCursor
                    /\ pc' = "publish"
               ELSE /\ packagesCursor' = resp.PageInfo.EndCursor
                    /\ pc' = "loop"

\* client.Query returns a page of the repository
QueryOk ==
    /\ pc = "loop"
    /\ RepositoryExists
    /\ queries' = Append(queries, <<packagesCursor, versionsCursor>>)
    /\ \E resp \in {ServerResponse(packagesCursor, versionsCursor, k) : k \in 1..MaxPageSize} :
           Step(resp)
    /\ UNCHANGED <<token, githubRepo, repo, now, fatal, repositoryOwner,
                   repositoryName, envFile, anomalies>>

\* client.Query returns an empty page of packages that reports a next page
QueryAnomalous ==
    /\ pc = "loop"
    /\ RepositoryExists
    /\ Offset(packagesCursor) >= Len(repo)
    /\ anomalies < MaxAnomalies
    /\ anomalies' = anomalies + 1
    /\ queries' = Append(queries, <<packagesCursor, versionsCursor>>)
    /\ \E resp \in {AnomalousResponse(packagesCursor)} : Step(resp)
    /\ UNCHANGED <<token, githubRepo, repo, now, fatal, repositoryOwner,
                   repositoryName, envFile>>

\* QueryFails with the error reported and the run going on to publish
QueryFailsIgnored ==
    /\ pc = "loop"
    /\ queries' = Append(queries, <<packagesCursor, versionsCursor>>)
    /\ pc' = "publish"
    /\ fatal' = "query"
    /\ UNCHANGED <<token, githubRepo, repo, now, repositoryOwner, repositoryName,
                   packagesCursor, versionsCursor, query, versions, envFile,
                   visited, anomalies>>

\* client.Query returns an error: Fatalf
QueryFails ==
    /\ pc = "loop"
    /\ queries' = Append(queries, <<packagesCursor, versionsCursor>>)
    /\ pc' = "failed"
    /\ fatal' = "query"
    /\ UNCHANGED <<token, githubRepo, repo, now, repositoryOwner, repositoryName,
                   packagesCursor, versionsCursor, query, versions, envFile,
                   visited, anomalies>>

\* strings.Join and githubactions.SetEnv
Publish ==
    /\ pc = "publish"
    /\ envFile' = Append(envFile, <<"STALE_VERSIONS", Join(versions, CommaSpace)>>)
    /\ pc' = "done"
    /\ UNCHANGED <<token, githubRepo, repo, now, fatal, repositoryOwner,
                   repositoryName, packagesCursor, versionsCursor, query, versions,
                   queries, visited, anomalies>>

\* the clock advances while the loops run
Tick ==
    /\ pc = "loop"
    /\ now < StartTime + MaxTicks
    /\ now' = now + 1
    /\ UNCHANGED <<token, githubRepo, repo, pc, fatal, repositoryOwner,
                   repositoryName, packagesCursor, versionsCursor, query, versions,
                   envFile, queries, visited, anomalies>>

Next ==
    \/ StartTokenEmpty
    \/ StartRepoEmpty
    \/ StartPanic
    \/ StartOk
    \/ QueryOk
    \/ QueryAnomalous
    \/ QueryFails
    \/ Publish
    \/ Tick

Spec == Init /\ [][Next]_vars

\* the process is the only thread of control and every call it makes
\* returns: while a step of the program is possible, one is taken. The loops'
\* conditions do not read tags or timestamps: the fair runs start from the
\* repositories of basic versions.
LiveInit == Init /\ repo \in BasicRepos

LiveSpec == LiveInit /\ [][Next]_vars /\ WF_vars(Next)

(* ------------------------ vocabulary of the claims --------------------- *)
\* every version node of the repository
Range(seq) == {seq[x] : x \in 1..Len(seq)}

AllNodes == UNION {Range(repo[i].Versions) : i \in 1..Len(repo)}

NodeOf(id) == CHOOSE n \in AllNodes : n.ID = id

Count(seq, e) == Cardinality({x \in 1..Len(seq) : seq[x] = e})

VisitCount(id) == Count(visited, id)

\* the tags of Tags that the semantic-version grammar, latest and
\* docker-base-layer protect
ProtectedTags == {TagSemver, TagSemverPre, TagSemverBuild, TagLatest, TagDockerBaseLayer}

\* the run met no anomalous page and ended its traversal
TraversalEnded == pc \in {"publish", "done"} /\ anomalies = 0

\* the last query succeeded and its page of packages is empty
LastPageEmpty == Len(queries) > 0 /\ fatal = "" /\ Len(query.Nodes) = 0

\* what a run publishes when every package comes as a single page and the
\* clock stays at t
RECURSIVE OnePageRun(_, _)
OnePageRun(pkgs, t) ==
    IF Len(pkgs) = 0 THEN <<>>
    ELSE StaleIDs(Head(pkgs).Versions, t) \o OnePageRun(Tail(pkgs), t)

(* ------------------------------- C1 ------------------------------------ *)
\* C1: when the traversal of a run without failed query has ended, every
\* version node of every package has been visited exactly once.
C1_EveryVersionVisitedOnce ==
    TraversalEnded => \A n \in AllNodes : VisitCount(n.ID) = 1

(* ------------------------------- C2 ------------------------------------ *)
\* C2: the stale set never holds a version whose tag is a semantic version,
\* latest or docker-base-layer, whatever the age of its file.
C2_NoProtectedTagIsStale ==
    \A id \in Range(versions) : NodeOf(id).Version \notin ProtectedTags

\* a run has ended in which a version with a protected pre-release tag and
\* an old file was visited, next to a version that did become stale
C2_Witness ==
    /\ pc = "done"
    /\ Len(versions) > 0
    /\ \E id \in Range(visited) :
           /\ NodeOf(id).Version = TagSemverPre
           /\ NodeOf(id).Files = OldFile

(* ------------------------------- C3 ------------------------------------ *)
\* C3: once a query has failed the run is in the failure state, it can take
\* no further step (no query, no publication), and STALE_VERSIONS was never
\* written, whatever had been accumulated.
C3_QueryFailureIsFatal ==
    fatal = "query" => /\ pc = "failed"
                       /\ envFile = <<>>
                       /\ ~ENABLED Next

\* a later pagination step failed after stale versions had been accumulated
C3_Witness ==
    /\ fatal = "query"
    /\ Len(queries) >= 2
    /\ Len(versions) > 0

(* ------------------------------- C4 ------------------------------------ *)
\* C4: whenever a page is processed, each of its versions that has a file
\* and an unprotected tag is appended to the stale set exactly when its
\* file's timestamp is strictly before the clock minus seven days, and
\* nothing else of that kind is appended.
C4_StaleIffStrictlyOlder ==
    [][(queries' # queries /\ fatal' = "" /\ Len(query'.Nodes) > 0) =>
          LET nodes == query'.Nodes[1].Versions.Nodes
              added == {versions'[x] : x \in (Len(versions) + 1)..Len(versions')}
          IN  /\ SubSeq(versions', 1, Len(versions)) = versions
              /\ added \subseteq {nodes[x].ID : x \in 1..Len(nodes)}
              /\ \A x \in 1..Len(nodes) :
                     (Len(nodes[x].Files) > 0 /\ nodes[x].Version \notin ProtectedTags) =>
                         (nodes[x].ID \in added
                             <=> nodes[x].Files[1].UpdatedAt < now - PackageTTL)]_vars

\* the clock never advanced, a version whose file is exactly seven days old
\* was visited and retained, and another version of the run became stale
C4_Witness ==
    /\ now = StartTime
    /\ Len(versions) > 0
    /\ \E id \in Range(visited) :
           LET node == NodeOf(id)
           IN  /\ Len(node.Files) > 0
               /\ node.Version = TagPr
               /\ node.Files[1].UpdatedAt = StartTime - PackageTTL
               /\ id \notin Range(versions)

(* ------------------------------- C5 ------------------------------------ *)
\* C5: a version without files is never in the stale set, whatever its tag,
\* and the response that carries one is handled like any other: every node
\* of its page is visited and the run goes on to the next page, the next
\* package or publication as the page info decides.
C5_NoFilesNeverStaleNorFatal ==
    /\ \A id \in Range(versions) : Len(NodeOf(id).Files) > 0
    /\ (/\ fatal = ""
        /\ Len(query.Nodes) > 0
        /\ \E x \in 1..Len(query.Nodes[1].Versions.Nodes) :
               Len(query.Nodes[1].Versions.Nodes[x].Files) = 0)
       => LET page == query.Nodes[1].Versions
              n == Len(page.Nodes)
          IN  /\ Len(visited) >= n
              /\ \A x \in 1..n : visited[Len(visited) - n + x] = page.Nodes[x].ID
              /\ pc \in {"loop", "publish", "done"}
              /\ (page.PageInfo.HasNextPage \/ query.PageInfo.HasNextPage) => pc = "loop"

\* a page began with an unprotected version without files, a later version
\* of the same page became stale, and the run went on to a further query
C5_Witness ==
    /\ fatal = ""
    /\ pc = "loop"
    /\ Len(query.Nodes) > 0
    /\ LET nodes == query.Nodes[1].Versions.Nodes
       IN  /\ Len(nodes) >= 2
           /\ Len(nodes[1].Files) = 0
           /\ nodes[1].Version = TagPr
           /\ nodes[2].ID \in Range(versions)

(* ------------------------------- C6 ------------------------------------ *)
\* C6: a run whose clock stayed at StartTime publishes the stale set that
\* the run over the same repository with one page per package publishes,
\* however the versions were split into pages.
C6_StaleSetIndependentOfPages ==
    (pc = "done" /\ anomalies = 0 /\ now = StartTime) =>
        Range(versions) = Range(OnePageRun(repo, StartTime))

(* ------------------------------- C7 ------------------------------------ *)
\* C7: STALE_VERSIONS is written exactly once, when the run is done and the
\* last page of packages reported no next page; its value is empty for an
\* empty stale set, and otherwise splitting it at the commas gives back the
\* stale identifiers in order, each but the first preceded by one space.
C7_PublishedOnceJoined ==
    /\ pc # "done" => envFile = <<>>
    /\ pc = "done" =>
        /\ Len(envFile) = 1
        /\ envFile[1][1] = "STALE_VERSIONS"
        /\ ~query.PageInfo.HasNextPage
        /\ LET value == envFile[1][2]
               parts == Split(value, ",")
           IN  IF Len(versions) = 0 THEN value = <<>>
               ELSE /\ Len(parts) = Len(versions)
                    /\ parts[1] = versions[1]
                    /\ \A x \in 2..Len(parts) : parts[x] = <<" ">> \o versions[x]

\* a run published three stale versions
C7_Witness ==
    /\ pc = "done"
    /\ Len(versions) = 3
    /\ Len(envFile) = 1

(* ------------------------------- C8 ------------------------------------ *)
\* C8: with an empty ROBOT_TOKEN or an empty GITHUB_REPOSITORY the run is at
\* its start or has failed there: no query was issued, nothing was published
\* and no step is left but the failure.
C8_EmptyConfigurationIsFatal ==
    (token = <<>> \/ githubRepo = <<>>) =>
        /\ pc \in {"start", "failed"}
        /\ pc = "failed" => fatal \in {"token", "repo"} /\ ~ENABLED Next
        /\ queries = <<>>
        /\ envFile = <<>>

\* the run failed on the empty GITHUB_REPOSITORY, its token being set
C8_Witness ==
    /\ token # <<>>
    /\ githubRepo = <<>>
    /\ pc = "failed"
    /\ fatal = "repo"

(* ------------------------------- C9 ------------------------------------ *)
\* a non-empty identifier that is not owner/name with both parts non-empty
Malformed(s) ==
    /\ s # <<>>
    /\ LET parts == Split(s, "/")
       IN  Len(parts) # 2 \/ parts[1] = <<>> \/ parts[2] = <<>>

\* C9: with a malformed GITHUB_REPOSITORY no query is ever issued and
\* nothing is published.
C9_MalformedRepositoryIsFatal ==
    Malformed(githubRepo) => queries = <<>> /\ envFile = <<>>

(* ------------------------------- C10 ----------------------------------- *)
\* C10 as stated: after an empty page of packages the packages loop is left,
\* whatever the page's has-more flag says: the run is about to publish or
\* has published.
C10_EmptyPageEndsOuterLoop ==
    LastPageEmpty => pc \in {"publish", "done"}

\* C10 as amended: after an empty page of packages the versions loop is left
\* and the page's has-more flag decides: when it is false the run goes on to
\* publish, when it is true the packages cursor is set to the page's end
\* cursor and the run is about to query again.
C10_EmptyPageLeavesInnerLoop ==
    LastPageEmpty =>
        IF query.PageInfo.HasNextPage
        THEN pc = "loop" /\ packagesCursor = query.PageInfo.EndCursor
        ELSE pc \in {"publish", "done"}

\* an empty page reported a next page and the run is about to query again
C10_Witness ==
    /\ LastPageEmpty
    /\ query.PageInfo.HasNextPage
    /\ pc = "loop"

(* ------------------------------- C11 ----------------------------------- *)
\* C11: a run that has entered the loops and whose queries are all answered
\* with pages of the repository (no failed query, no anomalous page) leaves
\* both loops and publishes STALE_VERSIONS.
C11_TraversalTerminates ==
    (pc = "loop") ~> (pc = "done" \/ fatal = "query" \/ anomalies > 0)

\* a run over two packages, one of them read in two pages, has published
C11_Witness ==
    /\ pc = "done"
    /\ fatal = ""
    /\ anomalies = 0
    /\ Len(repo) = 2
    /\ Len(queries) = 3
    /\ Len(envFile) = 1

(* ------------------------------- C12 ----------------------------------- *)
\* the most recent query was answered
Answered == Len(queries) > 0 /\ fatal = ""

\* the cursors the most recent query carried
SentPackagesCursor == queries[Len(queries)][1]

SentVersionsCursor == queries[Len(queries)][2]

\* the versions page of the most recent response reports a next page
VersionsHasMore ==
    Len(query.Nodes) # 0 /\ query.Nodes[1].Versions.PageInfo.HasNextPage

\* C12: the run is about to publish or has published only when the last
\* packages page reported no next page, and the versions loop has been left
\* (the run goes on to publish, or the packages cursor has moved) only when
\* the last versions page reported no next page or the packages page was
\* empty.
C12_NoEarlyTermination ==
    Answered =>
        /\ pc \in {"publish", "done"} =>
               ~query.PageInfo.HasNextPage /\ ~VersionsHasMore
        /\ packagesCursor # SentPackagesCursor => ~VersionsHasMore

\* the run is about to publish after three pages: two pages of versions of
\* the first package, then the second package
C12_Witness ==
    /\ Answered
    /\ anomalies = 0
    /\ pc = "publish"
    /\ Len(queries) = 3
    /\ queries[2] = <<NilCursor, <<1>>>>
    /\ SentPackagesCursor = <<1>>

(* ------------------------------- C13 ----------------------------------- *)
\* C13: in a run without anomalous pages no two queries carry the same pair
\* of cursors, and after a query each cursor is either the one the query
\* carried or the end cursor of its own collection's page in the response to
\* that query.
C13_NoPageFetchedTwice ==
    /\ anomalies = 0 =>
           \A i, j \in 1..Len(queries) : queries[i] = queries[j] => i = j
    /\ Len(queries) > 0 =>
           /\ packagesCursor \in {SentPackagesCursor, query.PageInfo.EndCursor}
           /\ \/ versionsCursor = SentVersionsCursor
              \/ /\ Len(query.Nodes) # 0
                 /\ versionsCursor = query.Nodes[1].Versions.PageInfo.EndCursor

\* both cursors have moved: the first package was read in two pages and a
\* second package is to come
C13_Witness ==
    /\ Answered
    /\ anomalies = 0
    /\ pc = "loop"
    /\ queries = <<<<NilCursor, NilCursor>>, <<NilCursor, <<1>>>>>>
    /\ versionsCursor = <<1>>
    /\ packagesCursor = <<1>>

(* ------------------------------- C14 ----------------------------------- *)
\* C14: every step leaves the stale set as it was or extends it at its end,
\* and the stale set it leaves holds no identifier twice.
C14_StaleSetOnlyAppended ==
    [][/\ Len(versions') >= Len(versions)
       /\ SubSeq(versions', 1, Len(versions)) = versions
       /\ \A i, j \in 1..Len(versions') : versions'[i] = versions'[j] => i = j]_vars

\* the stale set has grown twice: one stale version from each of two pages
C14_Witness ==
    /\ Answered
    /\ Len(queries) = 2
    /\ Len(visited) = 2
    /\ Len(versions) = 2
    /\ versions = visited

(* ------------------------------- C15 ----------------------------------- *)
\* C15: the first query of a run, and every query that carries another
\* packages cursor than the query before it, carries a nil versions cursor.
C15_NewPackageStartsAtFirstPage ==
    \A i \in 1..Len(queries) :
        (i = 1 \/ queries[i][1] # queries[i - 1][1]) => queries[i][2] = NilCursor

(* ------------------------------- C16 ----------------------------------- *)
\* C16: a step that reads a versions page reporting a next page moves the
\* versions cursor forward to that page's end cursor, leaves the packages
\* cursor as it was and stays in the loops; a step that changes the packages
\* cursor has read a versions page reporting no next page (or an empty
\* packages page) and leaves the versions cursor as it was.
C16_OnePackageAtATime ==
    [][(queries' # queries /\ fatal' = "") =>
           /\ VersionsHasMore' =>
                  /\ packagesCursor' = packagesCursor
                  /\ versionsCursor' = query'.Nodes[1].Versions.PageInfo.EndCursor
                  /\ Offset(versionsCursor') > Offset(versionsCursor)
                  /\ pc' = "loop"
           /\ packagesCursor' # packagesCursor =>
                  /\ ~VersionsHasMore'
                  /\ versionsCursor' = versionsCursor]_vars

\* the run is in the middle of the second package: its first versions page
\* reported a next page
C16_Witness ==
    /\ Answered
    /\ VersionsHasMore
    /\ pc = "loop"
    /\ Len(queries) = 2
    /\ SentPackagesCursor = <<1>>
    /\ SentVersionsCursor = NilCursor
    /\ packagesCursor = <<1>>
    /\ versionsCursor = <<1>>

=============================================================================
